---------------------------- MODULE Spec2Model ----------------------------
(***************************************************************************)
(* Model of the checkout checkbox extension                                *)
(* (src/extensions/checkout-ui/src/Checkout.jsx): the settings accessors,  *)
(* the visibility evaluator, the buyer-journey intercept and the           *)
(* component's state under host events.                                    *)
(*                                                                         *)
(* JavaScript strings are sequences of one-character strings, so that      *)
(* split, trim, toUpperCase and includes are computed, not assumed.        *)
(* Every other JavaScript value is a tagged record.                        *)
(***************************************************************************)
EXTENDS Integers, Sequences, FiniteSets, TLC

(***************************************************************************)
(* JavaScript values                                                       *)
(***************************************************************************)
Undefined == [t |-> "undefined"]
Null == [t |-> "null"]
Bool(b) == [t |-> "boolean", b |-> b]
Str(s) == [t |-> "string", s |-> s]
Num(n) == [t |-> "number", n |-> n]
\* An object is a function from its own property names to values.
Obj(o) == [t |-> "object", o |-> o]
Arr(a) == [t |-> "array", a |-> a]

\* typeof v
TypeOf(v) ==
    CASE v.t = "null" -> "object"
      [] v.t = "array" -> "object"
      [] OTHER -> v.t

\* v converted to a boolean (if (v), !v, v || w)
Truthy(v) ==
    CASE v.t = "undefined" -> FALSE
      [] v.t = "null" -> FALSE
      [] v.t = "boolean" -> v.b
      [] v.t = "string" -> v.s # <<>>
      [] v.t = "number" -> v.n # 0
      [] OTHER -> TRUE

\* a || b
OrElse(a, b) == IF Truthy(a) THEN a ELSE b

\* v[name], v?.[name]: the property of an object, undefined when it has none
\* (and, for the optional chain, when v is null or undefined).
Get(v, name) ==
    IF v.t = "object" /\ name \in DOMAIN v.o THEN v.o[name] ELSE Undefined

\* name in v
HasProp(v, name) == v.t = "object" /\ name \in DOMAIN v.o

(***************************************************************************)
(* String primitives                                                       *)
(***************************************************************************)
LowerCase == <<"a","b","c","d","e","f","g","h","i","j","k","l","m",
               "n","o","p","q","r","s","t","u","v","w","x","y","z">>
UpperCase == <<"A","B","C","D","E","F","G","H","I","J","K","L","M",
               "N","O","P","Q","R","S","T","U","V","W","X","Y","Z">>

UpperChar(c) ==
    IF \E i \in DOMAIN LowerCase : LowerCase[i] = c
    THEN UpperCase[CHOOSE i \in DOMAIN LowerCase : LowerCase[i] = c]
    ELSE c

\* s.toUpperCase()
ToUpperCase(s) == [i \in 1..Len(s) |-> UpperChar(s[i])]

IsSpace(c) == c \in {" ", "\t", "\n"}

\* s.trim()
RECURSIVE Trim(_)
Trim(s) ==
    IF s = <<>> THEN s
    ELSE IF IsSpace(s[1]) THEN Trim(Tail(s))
    ELSE IF IsSpace(s[Len(s)]) THEN Trim(SubSeq(s, 1, Len(s) - 1))
    ELSE s

\* s.split(',')
RECURSIVE Split(_)
Split(s) ==
    IF \E i \in 1..Len(s) : s[i] = ","
    THEN LET i == CHOOSE k \in 1..Len(s) :
                      s[k] = "," /\ \A j \in 1..(k - 1) : s[j] # ","
         IN <<SubSeq(s, 1, i - 1)>> \o Split(SubSeq(s, i + 1, Len(s)))
    ELSE <<s>>

\* hay.includes(needle)
Includes(hay, needle) ==
    \E i \in 0..(Len(hay) - Len(needle)) :
        SubSeq(hay, i + 1, i + Len(needle)) = needle

\* arr.includes(x)
ArrayIncludes(arr, x) == \E i \in DOMAIN arr : arr[i] = x

Digits == <<"0","1","2","3","4","5","6","7","8","9">>

RECURSIVE NatToString(_)
NatToString(n) ==
    IF n < 10 THEN <<Digits[n + 1]>>
    ELSE NatToString(n \div 10) \o <<Digits[(n % 10) + 1]>>

\* String(v), and the conversion Array.prototype.join applies to an element.
RECURSIVE JSString(_)
JoinAll(parts) ==
    LET RECURSIVE J(_)
        J(k) == IF k > Len(parts) THEN <<>>
                ELSE (IF parts[k].t \in {"undefined", "null"} THEN <<>>
                      ELSE JSString(parts[k]))
                     \o (IF k < Len(parts) THEN <<",">> ELSE <<>>) \o J(k + 1)
    IN J(1)
JSString(v) ==
    CASE v.t = "string" -> v.s
      [] v.t = "number" -> NatToString(v.n)
      [] v.t = "boolean" ->
            IF v.b THEN <<"t","r","u","e">> ELSE <<"f","a","l","s","e">>
      [] v.t = "undefined" -> <<"u","n","d","e","f","i","n","e","d">>
      [] v.t = "null" -> <<"n","u","l","l">>
      [] v.t = "array" -> JoinAll(v.a)
      [] OTHER -> <<"[","o","b","j","e","c","t"," ","O","b","j","e","c","t","]">>

\* parts.join(''): null and undefined elements contribute nothing.
RECURSIVE Join(_)
Join(parts) ==
    IF parts = <<>> THEN <<>>
    ELSE (IF Head(parts).t \in {"undefined", "null"} THEN <<>>
          ELSE JSString(Head(parts))) \o Join(Tail(parts))

(***************************************************************************)
(* Settings accessor (Checkout.jsx 11-51)                                  *)
(***************************************************************************)
\* node.value || node.text || ''
TextOf(node) == OrElse(Get(node, "value"), OrElse(Get(node, "text"), Str(<<>>)))

RECURSIVE extractFromNode(_)
extractFromChildren(children) ==
    IF children.t # "array" THEN Str(<<>>)
    ELSE Str(Join([i \in 1..Len(children.a) |-> extractFromNode(children.a[i])]))

\* extractFromNode descending into the children of root nodes only.
extractFromNodeRootOnly(node) ==
    IF ~Truthy(node) THEN Str(<<>>)
    ELSE IF TypeOf(node) = "string" THEN node
    ELSE IF TypeOf(node) # "object" THEN Str(<<>>)
    ELSE IF Get(node, "type") = Str(<<"t","e","x","t">>) THEN TextOf(node)
    ELSE IF Get(node, "type") = Str(<<"r","o","o","t">>) /\ Truthy(Get(node, "children"))
         THEN extractFromChildren(Get(node, "children"))
    ELSE Str(<<>>)

extractFromNode(node) ==
    IF ~Truthy(node) THEN Str(<<>>)
    ELSE IF TypeOf(node) = "string" THEN node
    ELSE IF TypeOf(node) # "object" THEN Str(<<>>)
    ELSE IF Get(node, "type") = Str(<<"t","e","x","t">>) THEN TextOf(node)
    ELSE IF Get(node, "type") = Str(<<"r","o","o","t">>) /\ Truthy(Get(node, "children"))
         THEN extractFromChildren(Get(node, "children"))
    ELSE IF Truthy(Get(node, "children")) /\ Get(node, "children").t = "array"
         THEN extractFromChildren(Get(node, "children"))
    ELSE Str(<<>>)

extractTextFromRichText(richTextObj) ==
    IF TypeOf(richTextObj) = "string" THEN richTextObj
    ELSE IF ~Truthy(richTextObj) \/ TypeOf(richTextObj) # "object" THEN Str(<<>>)
    ELSE extractFromNode(richTextObj)

\* What getStringSetting returns when the extracted text is not a string:
\* extracted.trim is then not a function and the call throws.
Throws == [t |-> "throws"]

getStringSetting(settings, key, defaultValue) ==
    LET value == Get(settings, key) IN
    IF value.t \in {"null", "undefined"} THEN defaultValue
    ELSE IF TypeOf(value) = "string" THEN value
    ELSE IF TypeOf(value) = "object"
         THEN LET extracted == extractTextFromRichText(value) IN
              IF ~Truthy(extracted) THEN defaultValue
              ELSE IF extracted.t # "string" THEN Throws
              ELSE IF Trim(extracted.s) # <<>> THEN extracted ELSE defaultValue
    ELSE Str(JSString(value))

getBooleanSetting(settings, key, defaultValue) ==
    LET value == Get(settings, key) IN
    IF TypeOf(value) = "boolean" THEN value.b ELSE defaultValue

(***************************************************************************)
(* Rich-text renderer (Checkout.jsx 66-158)                                *)
(***************************************************************************)
DefaultLabel ==
    Str(<<"I"," ","a","g","r","e","e"," ","t","o"," ","t","h","e"," ",
          "t","e","r","m","s"," ","a","n","d"," ",
          "c","o","n","d","i","t","i","o","n","s">>)

\* A rendered <s-text> or <s-link>: its key, its attributes and its children.
Element(tag, key, props, content) ==
    [t |-> "element", tag |-> tag, key |-> key, props |-> props,
     content |-> content]

\* node.children && Array.isArray(node.children)
HasChildArray(node) ==
    Truthy(Get(node, "children")) /\ Get(node, "children").t = "array"

\* IsExternal taking every link for an external one.
IsExternalAlways(url) == TRUE

\* node.url?.startsWith('http')
IsExternal(url) ==
    /\ url.t = "string"
    /\ Len(url.s) >= 4
    /\ SubSeq(url.s, 1, 4) = <<"h","t","t","p">>

\* NodeIndexAtCall with the counter living on across calls.
NodeIndexCarried(leftBehind) == leftBehind

\* nodeIndex as a call of parseRichTextLabel finds it: `let nodeIndex = 0`
\* (line 71), whatever an earlier call left behind.
NodeIndexAtCall(leftBehind) == 0

\* convertNode (lines 73-141) with the nodeIndex counter threaded through:
\* the converted value and the counter afterwards. convertChildren is
\* node.children.map((child, i) => convertNode(child, keyPrefix + infix + i)).
RECURSIVE convertNode(_, _, _)
RECURSIVE convertChildren(_, _, _, _, _)
convertChildren(children, keyPrefix, infix, i, idx) ==
    IF i >= Len(children) THEN [outs |-> <<>>, idx |-> idx]
    ELSE LET first == convertNode(children[i + 1],
                                  keyPrefix \o infix \o NatToString(i), idx)
             rest == convertChildren(children, keyPrefix, infix, i + 1, first.idx)
         IN [outs |-> <<first.out>> \o rest.outs, idx |-> rest.idx]

\* The content of a bold or italic node: its converted children, falsy ones
\* dropped, or its own text when it has no children array.
StyledContent(node, keyPrefix, infix, idx) ==
    IF HasChildArray(node)
    THEN LET kids == convertChildren(Get(node, "children").a, keyPrefix, infix, 0, idx)
         IN [outs |-> SelectSeq(kids.outs, Truthy), idx |-> kids.idx]
    ELSE [outs |-> <<TextOf(node)>>, idx |-> idx]

convertNode(node, keyPrefix, idx) ==
    IF ~Truthy(node) THEN [out |-> Null, idx |-> idx]
    ELSE IF TypeOf(node) = "string" THEN [out |-> node, idx |-> idx]
    ELSE IF TypeOf(node) # "object" THEN [out |-> Str(JSString(node)), idx |-> idx]
    ELSE IF Get(node, "type") = Str(<<"t","e","x","t">>)
         THEN [out |-> TextOf(node), idx |-> idx]
    ELSE IF Get(node, "type") = Str(<<"b","o","l","d">>)
         THEN LET c == StyledContent(node, keyPrefix, <<"-","b","o","l","d","-">>, idx)
              IN [out |-> Element("s-text",
                                  <<"b","o","l","d","-">> \o keyPrefix \o <<"-">> \o NatToString(c.idx),
                                  [emphasis |-> "bold"], c.outs),
                  idx |-> c.idx + 1]
    ELSE IF Get(node, "type") = Str(<<"i","t","a","l","i","c">>)
         THEN LET c == StyledContent(node, keyPrefix, <<"-","i","t","a","l","i","c","-">>, idx)
              IN [out |-> Element("s-text",
                                  <<"i","t","a","l","i","c","-">> \o keyPrefix \o <<"-">> \o NatToString(c.idx),
                                  [emphasis |-> "italic"], c.outs),
                  idx |-> c.idx + 1]
    ELSE IF Get(node, "type") = Str(<<"l","i","n","k">>)
         THEN LET url == Get(node, "url")
                  kids == IF HasChildArray(node)
                          THEN convertChildren(Get(node, "children").a, keyPrefix,
                                               <<"-","l","i","n","k","-","c","h","i","l","d","-">>, 0, idx)
                          ELSE [outs |-> <<>>, idx |-> idx]
                  linkText ==
                      IF HasChildArray(node)
                      THEN Str(Join(SelectSeq(kids.outs, Truthy)))
                      ELSE OrElse(Get(node, "value"),
                             OrElse(Get(node, "text"), OrElse(url, Str(<<>>))))
              IN [out |-> Element("s-link",
                                  <<"l","i","n","k","-">> \o keyPrefix \o <<"-">> \o NatToString(kids.idx),
                                  [href |-> OrElse(url, Str(<<"#">>)),
                                   target |-> IF IsExternal(url) THEN "_blank" ELSE "_self"],
                                  <<OrElse(linkText, OrElse(url, Str(<<"l","i","n","k">>)))>>),
                  idx |-> kids.idx + 1]
    ELSE IF HasChildArray(node)
         THEN LET kids == convertChildren(Get(node, "children").a, keyPrefix,
                                          <<"-">>, 0, idx)
              IN [out |-> Arr(SelectSeq(kids.outs, Truthy)), idx |-> kids.idx]
    ELSE [out |-> Null, idx |-> idx]

\* item === null || item === undefined || item === ''
IsNothing(item) ==
    \/ item.t \in {"null", "undefined"}
    \/ (item.t = "string" /\ item.s = <<>>)

\* flattenItems keeping a nested array as one item.
RECURSIVE flattenItemsShallow(_)
flattenItemsShallow(items) ==
    IF items = <<>> THEN <<>>
    ELSE (IF IsNothing(Head(items)) THEN <<>> ELSE <<Head(items)>>)
         \o flattenItemsShallow(Tail(items))

\* flatten (lines 146-153)
RECURSIVE flatten(_)
RECURSIVE flattenItems(_)
flattenItems(items) ==
    IF items = <<>> THEN <<>>
    ELSE LET item == Head(items)
         IN (IF IsNothing(item) THEN <<>>
             ELSE IF item.t = "array" THEN flatten(item)
             ELSE <<item>>) \o flattenItems(Tail(items))

\* flatten returning the items of every array last to first.
flattenReversed(arr) ==
    IF arr.t # "array" THEN <<arr>>
    ELSE LET items == flattenItems(arr.a)
         IN [k \in 1..Len(items) |-> items[Len(items) + 1 - k]]

flatten(arr) == IF arr.t # "array" THEN <<arr>> ELSE flattenItems(arr.a)

\* parseRichTextLabelFrom returning the flattened fragments even when there
\* are none.
parseRichTextLabelNoFallback(richTextObj, start) ==
    IF ~Truthy(richTextObj) \/ TypeOf(richTextObj) # "object"
    THEN [out |-> IF TypeOf(richTextObj) = "string" THEN <<richTextObj>>
                  ELSE <<DefaultLabel>>,
          idx |-> start]
    ELSE LET result == convertNode(richTextObj, <<"l","a","b","e","l">>, start)
         IN [out |-> SelectSeq(flatten(result.out), LAMBDA item : ~IsNothing(item)),
             idx |-> result.idx]

\* parseRichTextLabel with the counter's starting value given: the fragments it
\* returns and the counter it ends with.
parseRichTextLabelFrom(richTextObj, start) ==
    IF ~Truthy(richTextObj) \/ TypeOf(richTextObj) # "object"
    THEN [out |-> IF TypeOf(richTextObj) = "string" THEN <<richTextObj>>
                  ELSE <<DefaultLabel>>,
          idx |-> start]
    ELSE LET result == convertNode(richTextObj, <<"l","a","b","e","l">>, start)
             flattened == SelectSeq(flatten(result.out), LAMBDA item : ~IsNothing(item))
         IN [out |-> IF Len(flattened) > 0 THEN flattened ELSE <<DefaultLabel>>,
             idx |-> result.idx]

parseRichTextLabel(richTextObj) ==
    parseRichTextLabelFrom(richTextObj, NodeIndexAtCall(0)).out

(***************************************************************************)
(* Visibility evaluator (Checkout.jsx 193-244)                             *)
(***************************************************************************)
\* LineVariantId trying the three places in the opposite order.
LineVariantIdVariantFirst(line) ==
    OrElse(Get(Get(line, "variant"), "id"),
      OrElse(Get(Get(Get(line, "merchandise"), "variant"), "id"),
        OrElse(Get(Get(line, "merchandise"), "id"), Str(<<>>))))

\* line?.merchandise?.id || line?.merchandise?.variant?.id || line?.variant?.id || ''
LineVariantId(line) ==
    OrElse(Get(Get(line, "merchandise"), "id"),
      OrElse(Get(Get(Get(line, "merchandise"), "variant"), "id"),
        OrElse(Get(Get(line, "variant"), "id"), Str(<<>>))))

\* cartLines.map(...).filter(id => id), as strings
CartVariantIds(cartLines) ==
    LET ids == [i \in 1..Len(cartLines) |-> LineVariantId(cartLines[i])]
        kept == SelectSeq(ids, Truthy)
    IN [i \in 1..Len(kept) |-> kept[i].s]

\* SelectedVariants keeping the empty pieces of the selection.
SelectedVariantsUnfiltered(variantSelection) ==
    LET parts == Split(variantSelection)
    IN [i \in 1..Len(parts) |-> Trim(parts[i])]

\* variantSelection.split(',').map(v => v.trim()).filter(v => v.length > 0)
SelectedVariants(variantSelection) ==
    LET parts == Split(variantSelection)
        trimmed == [i \in 1..Len(parts) |-> Trim(parts[i])]
    IN SelectSeq(trimmed, LAMBDA v : Len(v) > 0)

\* SelectorMatches accepting a selector only when the cart id contains it.
SelectorMatchesOneWay(cartVariantId, selectedVariant) ==
    \/ cartVariantId = selectedVariant
    \/ Includes(cartVariantId, selectedVariant)

\* The predicate both match modes apply to a (cart id, selector) pair.
SelectorMatches(cartVariantId, selectedVariant) ==
    \/ cartVariantId = selectedVariant
    \/ Includes(cartVariantId, selectedVariant)
    \/ Includes(selectedVariant, cartVariantId)

\* VariantMatch with the all-mode branch combining selectors like the any-mode one.
VariantMatchAnyOnly(variantSelection, matchAnyVariant, cartLines) ==
    IF ~Truthy(variantSelection) THEN TRUE
    ELSE LET selectedVariants == SelectedVariants(variantSelection.s)
             cartVariantIds == CartVariantIds(cartLines)
         IN IF Len(selectedVariants) = 0 THEN TRUE
            ELSE \E i \in DOMAIN selectedVariants :
                   \E j \in DOMAIN cartVariantIds :
                     SelectorMatches(cartVariantIds[j], selectedVariants[i])

\* variantMatch as lines 196-233 leave it
VariantMatch(variantSelection, matchAnyVariant, cartLines) ==
    IF ~Truthy(variantSelection) THEN TRUE
    ELSE LET selectedVariants == SelectedVariants(variantSelection.s)
             cartVariantIds == CartVariantIds(cartLines)
         IN IF Len(selectedVariants) = 0 THEN TRUE
            ELSE IF matchAnyVariant
                 THEN \E i \in DOMAIN selectedVariants :
                        \E j \in DOMAIN cartVariantIds :
                          SelectorMatches(cartVariantIds[j], selectedVariants[i])
                 ELSE \A i \in DOMAIN selectedVariants :
                        \E j \in DOMAIN cartVariantIds :
                          SelectorMatches(cartVariantIds[j], selectedVariants[i])

\* countrySelection.split(',').map(c => c.trim().toUpperCase()).filter(c => c)
SelectedCountries(countrySelection) ==
    LET parts == Split(countrySelection)
        codes == [i \in 1..Len(parts) |-> ToUpperCase(Trim(parts[i]))]
    IN SelectSeq(codes, LAMBDA c : c # <<>>)

\* CountryMatch comparing the country code as received, not uppercased.
CountryMatchCaseSensitive(countrySelection, countryCode) ==
    IF Truthy(countrySelection) /\ Truthy(countryCode)
    THEN LET selectedCountries == SelectedCountries(countrySelection.s)
         IN \/ Len(selectedCountries) = 0
            \/ ArrayIncludes(selectedCountries, countryCode.s)
    ELSE TRUE

\* countryMatch as lines 235-241 leave it
CountryMatch(countrySelection, countryCode) ==
    IF Truthy(countrySelection) /\ Truthy(countryCode)
    THEN LET selectedCountries == SelectedCountries(countrySelection.s)
         IN \/ Len(selectedCountries) = 0
            \/ ArrayIncludes(selectedCountries, ToUpperCase(countryCode.s))
    ELSE TRUE

shouldShowCheckbox(settings, cartLines, countryCode) ==
    LET countrySelection == getStringSetting(settings, "country_selection", Str(<<>>))
        variantSelection == getStringSetting(settings, "variant_selection", Str(<<>>))
        matchAnyVariant == getBooleanSetting(settings, "match_any_variant", TRUE)
    IN VariantMatch(variantSelection, matchAnyVariant, cartLines)
       /\ CountryMatch(countrySelection, countryCode)

(***************************************************************************)
(* The component: values derived on every render (Checkout.jsx 54-63,      *)
(* 180-191, 246-282)                                                       *)
(***************************************************************************)
DefaultBlockErrorMessage ==
    Str(<<"P","l","e","a","s","e"," ","a","c","c","e","p","t"," ","t","h","e"," ",
          "t","e","r","m","s"," ","t","o"," ","c","o","n","t","i","n","u","e">>)

BlockReason ==
    Str(<<"C","h","e","c","k","b","o","x"," ","n","o","t"," ",
          "c","h","e","c","k","e","d">>)

hideCheckbox(settings) == getBooleanSetting(settings, "hide_checkbox", FALSE)
defaultChecked(settings) == getBooleanSetting(settings, "checkbox_default_checked", FALSE)
checkboxRequired(settings) == getBooleanSetting(settings, "checkbox_required", FALSE)
\* blockErrorMessage with the message hard-coded, the setting not read.
blockErrorMessageHardCoded(settings) == DefaultBlockErrorMessage

blockErrorMessage(settings) ==
    getStringSetting(settings, "block_error_message", DefaultBlockErrorMessage)

\* HookReached with the hook called before the hide_checkbox early return.
HookReachedBeforeHide(settings, canUpdate) == canUpdate

\* HookReached with the hook called before the canUpdateAttributes early return.
HookReachedWithoutCapability(settings, canUpdate) == ~hideCheckbox(settings)

\* A render reaches useBuyerJourneyIntercept (line 249) only past the two early
\* returns of lines 181-191.
HookReached(settings, canUpdate) == ~hideCheckbox(settings) /\ canUpdate

NoInterceptor == [hook |-> FALSE]

\* The callback a render hands to useBuyerJourneyIntercept: it closes over the
\* render's shouldShow, checkboxRequired, isChecked and blockErrorMessage.
RenderInterceptor(settings, canUpdate, checked, lines, country) ==
    IF HookReached(settings, canUpdate)
    THEN [hook |-> TRUE,
          shouldShow |-> shouldShowCheckbox(settings, lines, country),
          checkboxRequired |-> checkboxRequired(settings),
          isChecked |-> checked,
          blockErrorMessage |-> blockErrorMessage(settings)]
    ELSE NoInterceptor

\* What a render returns: nothing, the warning banner, or the checkbox.
RenderView(settings, canUpdate, lines, country) ==
    IF hideCheckbox(settings) THEN "null"
    ELSE IF ~canUpdate THEN "banner"
    ELSE IF ~shouldShowCheckbox(settings, lines, country) THEN "null"
    ELSE "checkbox"

\* InterceptDecision without the shouldShow guard of lines 251-253.
InterceptDecisionIgnoringVisibility(closure, canBlockProgress) ==
    IF canBlockProgress /\ closure.checkboxRequired /\ ~closure.isChecked
    THEN [behavior |-> "block",
          reason |-> BlockReason,
          errors |-> <<[message |-> closure.blockErrorMessage]>>,
          perform |-> "showErrorIfBlocked"]
    ELSE [behavior |-> "allow", perform |-> "hideError"]

\* The interceptor (lines 250-277): the decision it returns to the host.
InterceptDecision(closure, canBlockProgress) ==
    IF ~closure.shouldShow THEN [behavior |-> "allow"]
    ELSE IF canBlockProgress /\ closure.checkboxRequired /\ ~closure.isChecked
         THEN [behavior |-> "block",
               reason |-> BlockReason,
               errors |-> <<[message |-> closure.blockErrorMessage]>>,
               perform |-> "showErrorIfBlocked"]
         ELSE [behavior |-> "allow", perform |-> "hideError"]

\* PerformEffect with an allow's perform leaving the error as it is.
PerformEffectNoReset(decision, result, error) ==
    IF "perform" \notin DOMAIN decision THEN error
    ELSE IF decision.perform = "showErrorIfBlocked"
         THEN (IF result = "block" THEN TRUE ELSE error)
         ELSE error

\* PerformEffect with a block's perform showing the error whatever the result.
PerformEffectAlwaysShow(decision, result, error) ==
    IF "perform" \notin DOMAIN decision THEN error
    ELSE IF decision.perform = "showErrorIfBlocked" THEN TRUE
         ELSE FALSE

\* showError after the host calls the decision's perform with its final result.
PerformEffect(decision, result, error) ==
    IF "perform" \notin DOMAIN decision THEN error
    ELSE IF decision.perform = "showErrorIfBlocked"
         THEN (IF result = "block" THEN TRUE ELSE error)
         ELSE FALSE

\* handleCheckboxChange (lines 290-303): the value it passes to setIsChecked.
\* `name in v` throws a TypeError when v is not an object.
InThrows(v) == TypeOf(v) # "object" \/ v.t = "null"

\* The handler throws before reaching setIsChecked: the operand of one of its
\* two `in` tests is a truthy primitive.
handleCheckboxChangeThrows(event) ==
    /\ Truthy(event)
    /\ \/ InThrows(event)
       \/ /\ ~(HasProp(event, "checked")
                /\ TypeOf(Get(event, "checked")) = "boolean")
          /\ HasProp(event, "target")
          /\ Truthy(Get(event, "target"))
          /\ InThrows(Get(event, "target"))

\* handleCheckboxChange reading the event's own `checked` only.
handleCheckboxChangeDirectOnly(event) ==
    IF ~Truthy(event) THEN FALSE
    ELSE IF HasProp(event, "checked") /\ TypeOf(Get(event, "checked")) = "boolean"
         THEN Get(event, "checked").b
    ELSE FALSE

\* The value handed to setIsChecked (line 302), when the handler gets there.
handleCheckboxChange(event) ==
    IF ~Truthy(event) THEN FALSE
    ELSE IF HasProp(event, "checked") /\ TypeOf(Get(event, "checked")) = "boolean"
         THEN Get(event, "checked").b
    ELSE IF HasProp(event, "target") /\ Truthy(Get(event, "target"))
         THEN LET target == Get(event, "target") IN
              IF HasProp(target, "checked") /\ TypeOf(Get(target, "checked")) = "boolean"
              THEN Get(target, "checked").b
              ELSE FALSE
    ELSE FALSE

(***************************************************************************)
(* State                                                                   *)
(***************************************************************************)
VARIABLES
    settings,             \* shopify.settings.value, read-only to the extension
    canUpdateAttributes,  \* shopify.instructions.value.attributes.canUpdateAttributes
    shippingApi,          \* how the host's shippingAddress API behaves
    hostLines,            \* the cart lines the host holds
    phase,                \* "rendered" (first render done), "mounted", "unmounted"
    isChecked,            \* useState(defaultChecked)
    showError,            \* useState(false)
    cartLines,            \* useState([])
    countryCode,          \* useState('')
    subscribed,           \* the shippingAddress subscription is live
    registered,           \* the interceptor is registered with the host
    interceptor,          \* the callback of the latest render
    attempt,              \* the latest checkout-progression attempt
    history,              \* what has happened so far (for stating properties)
    dropped,              \* the host published an address nobody was subscribed to
    call,                 \* evaluator specifications: the call being evaluated
    ret,                  \* evaluator specifications: what the call returned
    nodeIndex,            \* the renderer's key counter as its last call left it
    again,                \* what the same call returned when made a second time
    shopifyBridge,        \* admin page: useAppBridge() returned a bridge
    gated,                \* admin page: the subscription-gated Index is the one running
    extensionStatus,      \* admin page: useState({label, tone, helper})
    statusError,          \* admin page: useState("")
    isCheckingStatus,     \* admin page: useState(false)
    pendingChecks,        \* admin page: runs of checkExtensionStatus awaiting the lookup
    lastCheck,            \* admin page: what the run that ended last was given
    hasRequestedReview,   \* admin page: useState(false)
    reviewPending,        \* admin page: a review request is awaiting its result
    handler,              \* api: the module-level handler ("undefined" or "created")
    serving,              \* api: where the request being served is
    headersSent,          \* api: res.headersSent
    responses,            \* api: the responses written to res, in order
    invoked,              \* api: the inner handler was invoked for this request
    nextCalls,            \* api: how often the inner handler has called next
    requests              \* api: requests this instance has received

vars == <<settings, canUpdateAttributes, shippingApi, hostLines, phase, isChecked,
          showError, cartLines, countryCode, subscribed, registered, interceptor,
          attempt, history, dropped, call, ret, nodeIndex, again,
          shopifyBridge, gated, extensionStatus, statusError, isCheckingStatus,
          pendingChecks, lastCheck, hasRequestedReview, reviewPending,
          handler, serving, headersSent, responses, invoked, nextCalls, requests>>

\* The variables of the admin page and of the api wrapper.
adminVars ==
    <<shopifyBridge, gated, extensionStatus, statusError, isCheckingStatus,
      pendingChecks, lastCheck, hasRequestedReview, reviewPending>>
serverVars ==
    <<handler, serving, headersSent, responses, invoked, nextCalls, requests>>

\* The variables of the other specifications, untouched by the component.
evalVars == <<call, ret, nodeIndex, again, adminVars, serverVars>>

(***************************************************************************)
(* Inputs the host and the merchant supply                                 *)
(***************************************************************************)
SettingsSpace ==
    { Obj([hide_checkbox |-> h, checkbox_default_checked |-> d,
           checkbox_required |-> r, block_error_message |-> m,
           variant_selection |-> v, match_any_variant |-> a,
           country_selection |-> c]) :
        h \in {Undefined, Bool(TRUE)},
        d \in {Undefined, Bool(TRUE), Str(<<"t","r","u","e">>)},
        r \in {Undefined, Bool(TRUE)},
        m \in {Undefined, Str(<<"n","o">>)},
        v \in {Undefined, Str(<<"A">>)},
        a \in {Undefined},
        c \in {Undefined, Str(<<"U","S",","," ","c","a">>)} }

ShippingApis == {"ok", "absent", "throwsOnRead", "throwsOnSubscribe"}

CartLineOf(id) == Obj([merchandise |-> Obj([id |-> Str(id)])])
HostCarts == {<<>>, <<CartLineOf(<<"A">>)>>}

Addresses ==
    {Undefined,
     Obj([countryCode |-> Str(<<>>)]),
     Obj([countryCode |-> Str(<<"u","s">>)]),
     Obj([countryCode |-> Str(<<"F","R">>)])}

ToggleEvents ==
    {Undefined,
     Obj([checked |-> Bool(TRUE)]),
     Obj([target |-> Obj([checked |-> Bool(TRUE)])]),
     Obj([target |-> Obj([checked |-> Bool(FALSE)])])}

NoDecision == [behavior |-> "none"]
NoAttempt ==
    [status |-> "none", canBlockProgress |-> FALSE, decision |-> NoDecision,
     result |-> "none"]

NoHistory == [blockable |-> FALSE, errorShown |-> FALSE]
NoCall == [fn |-> "none"]
NotRun == [t |-> "notRun"]

\* Rerender with the interceptor keeping the first render's checked state (the
\* callback registered once, never refreshed).
RerenderStaleChecked(checked, lines, country) ==
    RenderInterceptor(settings, canUpdateAttributes, defaultChecked(settings),
                      lines, country)

\* The render that follows a state change: the interceptor the hook now holds.
Rerender(checked, lines, country) ==
    RenderInterceptor(settings, canUpdateAttributes, checked, lines, country)

\* What the latest render shows.
Rendered == RenderView(settings, canUpdateAttributes, cartLines, countryCode)

\* The admin page, not open.
NoCheck == [path |-> "none", extensions |-> <<>>]
AdminIdle ==
    /\ shopifyBridge = FALSE
    /\ gated = FALSE
    /\ extensionStatus = [label |-> "Checking status...", tone |-> "subdued"]
    /\ statusError = ""
    /\ isCheckingStatus = FALSE
    /\ pendingChecks = <<>>
    /\ lastCheck = NoCheck
    /\ hasRequestedReview = FALSE
    /\ reviewPending = FALSE

\* The api function, not loaded.
ServerIdle ==
    /\ handler = "undefined"
    /\ serving = "notLoaded"
    /\ headersSent = FALSE
    /\ responses = <<>>
    /\ invoked = FALSE
    /\ nextCalls = 0
    /\ requests = 0

(***************************************************************************)
(* Init: the first render (useState initial values), effects not yet run   *)
(***************************************************************************)
Init ==
    /\ settings \in SettingsSpace
    /\ canUpdateAttributes \in BOOLEAN
    /\ shippingApi \in ShippingApis
    /\ hostLines \in HostCarts
    /\ phase = "rendered"
    /\ isChecked = defaultChecked(settings)
    /\ showError = FALSE
    /\ cartLines = <<>>
    /\ countryCode = Str(<<>>)
    /\ subscribed = FALSE
    /\ registered = FALSE
    /\ interceptor = RenderInterceptor(settings, canUpdateAttributes,
                                       defaultChecked(settings), <<>>, Str(<<>>))
    /\ attempt = NoAttempt
    /\ history = NoHistory
    /\ dropped = FALSE
    /\ call = NoCall
    /\ ret = NotRun
    /\ nodeIndex = 0
    /\ again = NotRun
    /\ AdminIdle
    /\ ServerIdle

(***************************************************************************)
(* Actions                                                                 *)
(***************************************************************************)
\* What the host and the merchant fix for the session.
envVars == <<settings, canUpdateAttributes, shippingApi>>

\* The effect of lines 163-178 on mount, with the host's current address, and
\* the hook's registration of the interceptor. A throw on reading the address
\* is caught before anything is set; a throw in subscribe is caught after the
\* initial country code has been set.
Mount(address) ==
    /\ phase = "rendered"
    /\ phase' = "mounted"
    /\ countryCode' =
         IF shippingApi \in {"ok", "throwsOnSubscribe"}
            /\ Truthy(Get(address, "countryCode"))
         THEN Get(address, "countryCode")
         ELSE countryCode
    /\ subscribed' = (shippingApi = "ok")
    /\ registered' = HookReached(settings, canUpdateAttributes)
    /\ interceptor' = Rerender(isChecked, cartLines, countryCode')
    /\ UNCHANGED <<envVars, hostLines, isChecked, showError, cartLines, attempt,
                   history, dropped, evalVars>>

\* AddressUpdate with the callback also clearing the error.
AddressUpdateClearingError(address) ==
    /\ subscribed
    /\ countryCode' =
         IF Truthy(Get(address, "countryCode"))
         THEN Get(address, "countryCode")
         ELSE countryCode
    /\ showError' = FALSE
    /\ interceptor' = Rerender(isChecked, cartLines, countryCode')
    /\ UNCHANGED <<envVars, hostLines, phase, isChecked, cartLines,
                   subscribed, registered, attempt, history, dropped, evalVars>>

\* AddressUpdate with the callback storing an absent country code as unknown.
AddressUpdateStoringEmpty(address) ==
    /\ subscribed
    /\ countryCode' =
         IF Truthy(Get(address, "countryCode"))
         THEN Get(address, "countryCode")
         ELSE Str(<<>>)
    /\ interceptor' = Rerender(isChecked, cartLines, countryCode')
    /\ UNCHANGED <<envVars, hostLines, phase, isChecked, showError, cartLines,
                   subscribed, registered, attempt, history, dropped, evalVars>>

\* The subscription callback of lines 170-172, called by the host with a new
\* shipping address.
AddressUpdate(address) ==
    /\ subscribed
    /\ countryCode' =
         IF Truthy(Get(address, "countryCode"))
         THEN Get(address, "countryCode")
         ELSE countryCode
    /\ interceptor' = Rerender(isChecked, cartLines, countryCode')
    /\ UNCHANGED <<envVars, hostLines, phase, isChecked, showError, cartLines,
                   subscribed, registered, attempt, history, dropped, evalVars>>

\* The host publishes a new shipping address after the extension was disposed
\* of: the subscription is gone and no callback runs.
AddressPublishedAfterUnmount(address) ==
    /\ phase = "unmounted"
    /\ shippingApi = "ok"
    /\ ~subscribed
    /\ dropped' = TRUE
    /\ UNCHANGED <<envVars, hostLines, phase, isChecked, showError, cartLines,
                   countryCode, subscribed, registered, interceptor, attempt,
                   history, evalVars>>

\* The host's cart changes. The component holds cartLines (line 160) and never
\* calls setCartLines: no handler runs.
CartUpdate(lines) ==
    /\ phase # "unmounted"
    /\ lines # hostLines
    /\ hostLines' = lines
    /\ UNCHANGED <<envVars, phase, isChecked, showError, cartLines, countryCode,
                   subscribed, registered, interceptor, attempt, history, dropped,
                   evalVars>>

\* Toggle with the handler also clearing the error.
ToggleClearingError(event) ==
    /\ phase = "mounted"
    /\ Rendered = "checkbox"
    /\ isChecked' = IF handleCheckboxChangeThrows(event) THEN isChecked
                    ELSE handleCheckboxChange(event)
    /\ showError' = FALSE
    /\ interceptor' = Rerender(isChecked', cartLines, countryCode)
    /\ UNCHANGED <<envVars, hostLines, phase, cartLines, countryCode,
                   subscribed, registered, attempt, history, dropped, evalVars>>

\* The buyer toggles the rendered checkbox: onChange={handleCheckboxChange}.
Toggle(event) ==
    /\ phase = "mounted"
    /\ Rendered = "checkbox"
    /\ isChecked' = IF handleCheckboxChangeThrows(event) THEN isChecked
                    ELSE handleCheckboxChange(event)
    /\ interceptor' = Rerender(isChecked', cartLines, countryCode)
    /\ UNCHANGED <<envVars, hostLines, phase, showError, cartLines, countryCode,
                   subscribed, registered, attempt, history, dropped, evalVars>>

\* The host asks the registered interceptor about a progression attempt.
Intercept(canBlockProgress) ==
    /\ phase = "mounted"
    /\ registered
    /\ attempt.status # "pending"
    /\ attempt' = [status |-> "pending", canBlockProgress |-> canBlockProgress,
                   decision |-> InterceptDecision(interceptor, canBlockProgress),
                   result |-> "none"]
    /\ history' = [history EXCEPT !.blockable =
                     @ \/ (/\ shouldShowCheckbox(settings, cartLines, countryCode)
                           /\ canBlockProgress
                           /\ checkboxRequired(settings)
                           /\ ~isChecked)]
    /\ UNCHANGED <<envVars, hostLines, phase, isChecked, showError, cartLines,
                   countryCode, subscribed, registered, interceptor, dropped,
                   evalVars>>

\* The host finalizes the attempt and calls the decision's perform, if any.
Finalize(result) ==
    /\ phase = "mounted"
    /\ attempt.status = "pending"
    /\ showError' = PerformEffect(attempt.decision, result, showError)
    /\ attempt' = [attempt EXCEPT !.status = "finalized", !.result = result]
    /\ history' = [history EXCEPT !.errorShown = @ \/ showError']
    /\ UNCHANGED <<envVars, hostLines, phase, isChecked, cartLines, countryCode,
                   subscribed, registered, interceptor, dropped, evalVars>>

\* A progression attempt while no interceptor is registered (the render
\* returned before the hook): the extension is not asked, the buyer proceeds.
ProceedUnintercepted(canBlockProgress) ==
    /\ phase = "mounted"
    /\ ~registered
    /\ attempt' = [status |-> "finalized", canBlockProgress |-> canBlockProgress,
                   decision |-> NoDecision, result |-> "allow"]
    /\ UNCHANGED <<envVars, hostLines, phase, isChecked, showError, cartLines,
                   countryCode, subscribed, registered, interceptor, history,
                   dropped, evalVars>>

\* Unmount with the effect returning no cleanup: the subscription stays live.
UnmountWithoutUnsubscribe ==
    /\ phase = "mounted"
    /\ phase' = "unmounted"
    /\ registered' = FALSE
    /\ UNCHANGED <<envVars, hostLines, isChecked, showError, cartLines,
                   countryCode, subscribed, interceptor, attempt, history,
                   dropped, evalVars>>

\* The host disposes of the extension: the effect's cleanup (line 173 returns
\* unsubscribe) and the hook's teardown run.
Unmount ==
    /\ phase = "mounted"
    /\ phase' = "unmounted"
    /\ subscribed' = FALSE
    /\ registered' = FALSE
    /\ UNCHANGED <<envVars, hostLines, isChecked, showError, cartLines,
                   countryCode, interceptor, attempt, history, dropped, evalVars>>

Next ==
    \/ \E address \in Addresses : Mount(address)
    \/ \E address \in Addresses : AddressUpdate(address)
    \/ \E address \in Addresses : AddressPublishedAfterUnmount(address)
    \/ \E lines \in HostCarts : CartUpdate(lines)
    \/ \E event \in ToggleEvents : Toggle(event)
    \/ \E b \in BOOLEAN : Intercept(b)
    \/ \E r \in {"allow", "block"} : Finalize(r)
    \/ \E b \in BOOLEAN : ProceedUnintercepted(b)
    \/ Unmount

Spec == Init /\ [][Next]_vars

(***************************************************************************)
(* Properties of the intercept                                             *)
(***************************************************************************)
\* The steps in which the host asks for a decision, and in which it finalizes one.
AttemptStep == attempt.status # "pending" /\ attempt'.status = "pending"
FinalizeStep == attempt.status = "pending" /\ attempt'.status = "finalized"

\* The state in which an attempt is made: what the visibility evaluator says of
\* the component's current state, and the current checked state.
Visible == shouldShowCheckbox(settings, cartLines, countryCode)

ConfiguredErrorMessage ==
    IF Get(settings, "block_error_message") = Undefined
    THEN DefaultBlockErrorMessage
    ELSE Get(settings, "block_error_message")

AllowAndHideError == [behavior |-> "allow", perform |-> "hideError"]

\* C1: an attempt made while the checkbox is visible, blocking is permitted,
\* the checkbox is required and it is not checked is decided block, with reason
\* "Checkbox not checked" and exactly one error carrying the configured message
\* (the default when none is configured); finalizing that decision as block
\* makes showError true.
C1_BlockWhenRequiredUnchecked ==
    [][ /\ (AttemptStep /\ Visible /\ attempt'.canBlockProgress
              /\ checkboxRequired(settings) /\ ~isChecked)
            => /\ attempt'.decision.behavior = "block"
               /\ attempt'.decision.reason = BlockReason
               /\ Len(attempt'.decision.errors) = 1
               /\ attempt'.decision.errors[1].message = ConfiguredErrorMessage
        /\ (FinalizeStep /\ attempt.decision.behavior = "block"
              /\ attempt'.result = "block")
            => showError' ]_vars

\* C1 witness: after a toggle back to unchecked and a country update, an
\* attempt was blocked with the configured message and the error is shown.
C1_Witness ==
    /\ attempt.status = "finalized"
    /\ attempt.decision.behavior = "block"
    /\ attempt.result = "block"
    /\ attempt.decision.errors[1].message = Str(<<"n","o">>)
    /\ defaultChecked(settings) /\ ~isChecked
    /\ countryCode = Str(<<"u","s">>)
    /\ showError

\* C2: an attempt made while the checkbox is visible but blocking is not
\* permitted, or the checkbox is not required, or it is checked, is decided
\* allow, and finalizing that decision makes showError false.
C2_AllowOtherwise ==
    [][ /\ (AttemptStep /\ Visible
              /\ ~(attempt'.canBlockProgress /\ checkboxRequired(settings) /\ ~isChecked))
            => attempt'.decision = AllowAndHideError
        /\ (FinalizeStep /\ attempt.decision = AllowAndHideError)
            => ~showError' ]_vars

\* C2 witness: an error had been shown, and a later allowed attempt on a
\* required, checked checkbox cleared it.
C2_Witness ==
    /\ attempt.status = "finalized"
    /\ attempt.decision = AllowAndHideError
    /\ history.errorShown
    /\ checkboxRequired(settings) /\ isChecked
    /\ ~showError

\* C3: while the visibility evaluator says the checkbox is not shown, every
\* attempt is decided allow with no errors attached, whatever checkbox_required,
\* the checked state and canBlockProgress are.
C3_AllowWhenNotVisible ==
    [][ (attempt' # attempt /\ attempt.status # "pending" /\ ~Visible)
        => /\ attempt'.decision.behavior # "block"
           /\ "errors" \notin DOMAIN attempt'.decision
           /\ attempt'.status = "pending" => attempt'.decision = [behavior |-> "allow"]
      ]_vars

\* C3 witness: the interceptor was asked while a country outside the selection
\* hid a required, unchecked checkbox and blocking was permitted.
C3_Witness ==
    /\ attempt.status = "pending"
    /\ attempt.decision = [behavior |-> "allow"]
    /\ attempt.canBlockProgress
    /\ checkboxRequired(settings) /\ ~isChecked
    /\ countryCode = Str(<<"F","R">>)
    /\ ~Visible

\* C4 (the claim as stated): after every attempt decided allow, the one issued
\* because the checkbox is not visible included, showError is false.
C4_ErrorResetOnEveryAllow ==
    [][ (FinalizeStep /\ attempt.decision.behavior = "allow") => ~showError' ]_vars

\* C5: after a block that showed the error, the buyer checks the box and the
\* host asks again: the decision is taken on the current checked state, is
\* allow, and its finalization leaves showError false.
C5_BlockThenAccept ==
    [][ /\ (AttemptStep /\ attempt.decision.behavior = "block"
              /\ attempt.result = "block" /\ showError /\ Visible /\ isChecked)
            => attempt'.decision = AllowAndHideError
        /\ (FinalizeStep /\ history.blockable /\ showError
              /\ attempt.decision = AllowAndHideError)
            => ~showError' ]_vars

\* C5 witness: required and initially unchecked, an attempt was blockable, the
\* error was shown, the box is now checked and the latest attempt, made with
\* blocking permitted, was allowed and the error is gone.
C5_Witness ==
    /\ checkboxRequired(settings) /\ ~defaultChecked(settings)
    /\ history.blockable /\ history.errorShown
    /\ isChecked
    /\ attempt.status = "finalized"
    /\ attempt.canBlockProgress
    /\ attempt.decision = AllowAndHideError
    /\ attempt.result = "allow"
    /\ ~showError

\* C6: with hide_checkbox true no checkbox is rendered and no attempt is ever
\* blocked, whatever the other settings and the checked state are.
C6_HiddenNeverBlocks ==
    Get(settings, "hide_checkbox") = Bool(TRUE)
    => /\ Rendered = "null"
       /\ attempt.decision.behavior # "block"
       /\ attempt.status = "finalized" => attempt.result = "allow"

\* C6 witness: hidden, yet required, unchecked and otherwise untargeted, and an
\* attempt with blocking permitted went through.
C6_Witness ==
    /\ Get(settings, "hide_checkbox") = Bool(TRUE)
    /\ checkboxRequired(settings) /\ ~isChecked
    /\ Visible
    /\ canUpdateAttributes
    /\ attempt.status = "finalized"
    /\ attempt.canBlockProgress
    /\ attempt.result = "allow"

\* C7 (the claim as stated): after a host cart update the running extension
\* shows what the visibility evaluator says of the cart's current lines, so
\* that with a non-empty variant_selection the checkbox becomes visible when a
\* matching variant is in the cart.
C7_CartUpdatesReachEvaluator ==
    [][ (phase = "mounted" /\ hostLines' # hostLines)
        => Rendered' = RenderView(settings, canUpdateAttributes, hostLines',
                                  countryCode') ]_vars

\* C10: once the extension is unmounted the subscription is gone, and nothing
\* the host publishes changes the country code or any other component state.
C10_NoUpdateAfterUnmount ==
    /\ [](phase = "unmounted" => ~subscribed)
    /\ [][ phase = "unmounted"
           => UNCHANGED <<countryCode, isChecked, showError, cartLines,
                          interceptor>> ]_vars

\* C10 witness: a country code was received while mounted, the extension was
\* unmounted, and the host has since published an address.
C10_Witness ==
    /\ phase = "unmounted"
    /\ countryCode = Str(<<"u","s">>)
    /\ dropped

\* C18: isChecked changes only in a step that is the toggle handler running on
\* some event, and showError only in a step that finalizes an intercept
\* decision; a step that changes the country code or the cart lines the
\* visibility is computed from leaves both as they were. Before the first effect runs, isChecked is the
\* checkbox_default_checked setting when that is a boolean and false otherwise,
\* and showError is false.
C18_CheckboxStateFrame ==
    /\ (phase = "rendered")
         => /\ isChecked = (Get(settings, "checkbox_default_checked") = Bool(TRUE))
            /\ ~showError
    /\ [][/\ isChecked' # isChecked => \E event \in ToggleEvents : Toggle(event)
          /\ showError' # showError => FinalizeStep
          /\ (countryCode' # countryCode \/ cartLines' # cartLines)
               => UNCHANGED <<isChecked, showError>>]_vars

\* C18 witness: with no default-checked setting the checkbox has been checked
\* by a toggle, an error has been shown by a finalized block, and a later
\* shipping address has changed the country, the error still showing.
C18_Witness ==
    /\ Get(settings, "checkbox_default_checked") # Bool(TRUE)
    /\ isChecked
    /\ showError
    /\ attempt.status = "finalized"
    /\ countryCode = Str(<<"F","R">>)

\* C22: once mounted on a host whose shipping-address feed is absent, throws
\* when read or throws when subscribed to, the extension holds no country code
\* and its country filter passes, whatever country_selection is.
C22_FeedFailureMeansNoConstraint ==
    (phase = "mounted" /\ shippingApi # "ok")
    => /\ countryCode = Str(<<>>)
       /\ CountryMatch(getStringSetting(settings, "country_selection", Str(<<>>)),
                       countryCode)

\* C23 as stated: while the host does not support attribute updates the
\* extension renders the warning banner, and no progression attempt is blocked
\* and no error is shown.
C23_UnsupportedShowsBannerNeverBlocks ==
    ~canUpdateAttributes
    => /\ Rendered = "banner"
       /\ attempt.decision.behavior # "block"
       /\ attempt.result # "block"
       /\ ~showError

\* C23 amended: while the host does not support attribute updates the extension
\* renders the warning banner, or nothing when hide_checkbox is true, never the
\* checkbox; no interceptor is registered, no progression attempt is blocked
\* and no error is shown, even when the checkbox is required and unchecked.
C23_UnsupportedNeverBlocks ==
    ~canUpdateAttributes
    => /\ Rendered = IF hideCheckbox(settings) THEN "null" ELSE "banner"
       /\ ~registered
       /\ attempt.decision.behavior # "block"
       /\ attempt.result # "block"
       /\ ~showError

\* C23 witness: on a host without attribute updates, with the checkbox required
\* and unchecked, the banner is rendered and an attempt that could have been
\* blocked has gone through.
C23_Witness ==
    /\ ~canUpdateAttributes
    /\ Rendered = "banner"
    /\ checkboxRequired(settings)
    /\ ~isChecked
    /\ attempt.status = "finalized"
    /\ attempt.canBlockProgress
    /\ attempt.result = "allow"

C27_CountryCodeSticky ==
    [][/\ countryCode # Str(<<>>) => countryCode' # Str(<<>>)
       /\ \A address \in Addresses :
            (~Truthy(Get(address, "countryCode")) /\ AddressUpdate(address))
            => countryCode' = countryCode]_vars

\* C27 witness: with the subscription live the stored code is "FR", and the
\* checkbox restricted to "US, ca" is not rendered.
C27_Witness ==
    /\ phase = "mounted"
    /\ subscribed
    /\ countryCode = Str(<<"F", "R">>)
    /\ Get(settings, "country_selection") # Undefined
    /\ ~hideCheckbox(settings)
    /\ canUpdateAttributes
    /\ Rendered = "null"

\* C28: showError goes from false to true only in the finalization, with the
\* result block, of a block decision; a block decision finalized with another
\* result leaves showError as it was; and whenever showError is true some
\* attempt has been made with the checkbox visible, blocking permitted, the
\* checkbox required and unchecked.
C28_ErrorOnlyFromFinalizedBlock ==
    /\ [](showError => history.blockable)
    /\ [][/\ (~showError /\ showError')
               => /\ FinalizeStep
                  /\ attempt.decision.behavior = "block"
                  /\ attempt'.result = "block"
          /\ (FinalizeStep /\ attempt.decision.behavior = "block"
                /\ attempt'.result # "block")
               => showError' = showError]_vars

\* C28 witness: a block decision has been finalized as allow and no error has
\* ever been shown.
C28_Witness ==
    /\ attempt.status = "finalized"
    /\ attempt.decision.behavior = "block"
    /\ attempt.result = "allow"
    /\ ~history.errorShown
    /\ ~showError

(***************************************************************************)
(* The visibility evaluator's two filters on enumerated inputs             *)
(***************************************************************************)
MaxSelectionLen == 3
MaxCartLines == 2

Strings(alphabet, n) == UNION {[1..k -> alphabet] : k \in 0..n}
SeqsUpTo(S, n) == UNION {[1..k -> S] : k \in 0..n}

VariantSelections == Strings({"A", "B", ",", " "}, MaxSelectionLen)

\* Cart lines identifying their variant by each of the three paths, or not at all.
EvaluatorCartLines ==
    {CartLineOf(<<"A">>),
     Obj([merchandise |-> Obj([variant |-> Obj([id |-> Str(<<"B","A">>)])])]),
     Obj([variant |-> Obj([id |-> Str(<<"B">>)])]),
     Obj([merchandise |-> Obj([id |-> Str(<<"A">>),
                               variant |-> Obj([id |-> Str(<<"B">>)])]),
          variant |-> Obj([id |-> Str(<<"B">>)])]),
     Obj([merchandise |-> Obj([id |-> Str(<<>>)]),
          variant |-> Obj([id |-> Str(<<"B">>)])]),
     Obj(<<>>)}

CountrySelections ==
    Strings({"U", "S", "u", ",", " "}, MaxSelectionLen)
      \cup {<<"U","S",",","C","A">>, <<"u","s",","," ","c","a"," ">>}

CountryCodes ==
    {<<>>, <<"u","s">>, <<"U","S">>, <<"U","s">>, <<"u","S">>, <<"F","R">>,
     <<"c","a">>, <<"U">>, <<"u">>, <<"S">>}

VariantCalls ==
    {[fn |-> "variantFilter", variantSelection |-> Str(sel),
      matchAnyVariant |-> any, cartLines |-> lines] :
        sel \in VariantSelections, any \in BOOLEAN,
        lines \in SeqsUpTo(EvaluatorCartLines, MaxCartLines)}

CountryCalls ==
    {[fn |-> "countryFilter", countrySelection |-> Str(sel),
      countryCode |-> Str(code)] :
        sel \in CountrySelections, code \in CountryCodes}

\* The component, not running.
ComponentIdle ==
    /\ settings = Obj(<<>>)
    /\ canUpdateAttributes = TRUE
    /\ shippingApi = "absent"
    /\ hostLines = <<>>
    /\ phase = "unmounted"
    /\ isChecked = FALSE
    /\ showError = FALSE
    /\ cartLines = <<>>
    /\ countryCode = Str(<<>>)
    /\ subscribed = FALSE
    /\ registered = FALSE
    /\ interceptor = NoInterceptor
    /\ attempt = NoAttempt
    /\ history = NoHistory
    /\ dropped = FALSE

componentVars ==
    <<settings, canUpdateAttributes, shippingApi, hostLines, phase, isChecked,
      showError, cartLines, countryCode, subscribed, registered, interceptor,
      attempt, history, dropped>>

InitEvaluator ==
    /\ ComponentIdle
    /\ call \in VariantCalls \cup CountryCalls
    /\ ret = NotRun
    /\ nodeIndex = 0
    /\ again = NotRun
    /\ AdminIdle
    /\ ServerIdle

EvaluateVariantFilter ==
    /\ call.fn = "variantFilter"
    /\ ret = NotRun
    /\ ret' = Bool(VariantMatch(call.variantSelection, call.matchAnyVariant,
                                call.cartLines))
    /\ UNCHANGED <<componentVars, call, nodeIndex, again, adminVars, serverVars>>

EvaluateCountryFilter ==
    /\ call.fn = "countryFilter"
    /\ ret = NotRun
    /\ ret' = Bool(CountryMatch(call.countrySelection, call.countryCode))
    /\ UNCHANGED <<componentVars, call, nodeIndex, again, adminVars, serverVars>>

NextEvaluator == EvaluateVariantFilter \/ EvaluateCountryFilter

SpecEvaluator == InitEvaluator /\ [][NextEvaluator]_vars

\* The elements of a sequence.
Range(seq) == {seq[i] : i \in DOMAIN seq}

\* C8: for a non-empty selector set the variant filter passes, in any-mode, iff
\* at least one selector matches some cart variant id and, in all-mode, iff
\* every selector matches some cart variant id; "A,B" against a cart holding
\* only variant A passes in any-mode and fails in all-mode.
C8_VariantFilterCombination ==
    (call.fn = "variantFilter" /\ ret # NotRun)
    => LET selectors == Range(SelectedVariants(call.variantSelection.s))
           ids == Range(CartVariantIds(call.cartLines))
           Matched(sel) == \E id \in ids : SelectorMatches(id, sel)
       IN /\ selectors # {}
             => ret.b = IF call.matchAnyVariant
                        THEN \E sel \in selectors : Matched(sel)
                        ELSE \A sel \in selectors : Matched(sel)
          /\ (call.variantSelection = Str(<<"A", ",", "B">>)
                /\ call.cartLines = <<CartLineOf(<<"A">>)>>)
             => ret.b = call.matchAnyVariant

\* C8 witness: "A,B" in all-mode against a cart holding only A was evaluated
\* and failed.
C8_Witness ==
    /\ call.fn = "variantFilter"
    /\ call.variantSelection = Str(<<"A", ",", "B">>)
    /\ ~call.matchAnyVariant
    /\ call.cartLines = <<CartLineOf(<<"A">>)>>
    /\ ret = Bool(FALSE)

\* C9: the country filter passes when the parsed selection is empty or the
\* country code is unknown (empty), and otherwise iff the uppercased country
\* code is one of the selected codes; "US,CA" passes for "us" in any letter
\* case and fails for "FR", and "" passes for every country.
C9_CountryFilter ==
    (call.fn = "countryFilter" /\ ret # NotRun)
    => LET codes == Range(SelectedCountries(call.countrySelection.s))
           code == call.countryCode.s
       IN /\ ret.b = (\/ codes = {}
                      \/ code = <<>>
                      \/ ToUpperCase(code) \in codes)
          /\ call.countrySelection = Str(<<"U","S",",","C","A">>)
             => /\ code \in {<<"u","s">>, <<"U","S">>, <<"U","s">>, <<"u","S">>}
                   => ret.b
                /\ code = <<"F","R">> => ~ret.b
                /\ SelectedCountries(call.countrySelection.s)
                     = << <<"U","S">>, <<"C","A">> >>
          /\ call.countrySelection = Str(<<>>) => ret.b

\* C9 witness: "US,CA" was evaluated for the lower-case code "us" and passed.
C9_Witness ==
    /\ call.fn = "countryFilter"
    /\ call.countrySelection = Str(<<"U","S",",","C","A">>)
    /\ call.countryCode = Str(<<"u","s">>)
    /\ ret = Bool(TRUE)

\* needle occurs in hay as a contiguous run of characters.
IsSubstring(needle, hay) ==
    \E first \in 1..(Len(hay) + 1) : \E last \in 0..Len(hay) :
        SubSeq(hay, first, last) = needle

\* C19: a selector matches a cart variant id iff they are equal, or the cart
\* id contains the selector, or the selector contains the cart id: with one
\* selector and one identifiable cart line the filter passes exactly for such
\* pairs, in both match modes.
C19_SymmetricSubstringMatch ==
    (call.fn = "variantFilter" /\ ret # NotRun)
    => LET selectors == SelectedVariants(call.variantSelection.s)
           ids == CartVariantIds(call.cartLines)
       IN (Len(selectors) = 1 /\ Len(ids) = 1)
          => ret.b = (\/ ids[1] = selectors[1]
                      \/ IsSubstring(selectors[1], ids[1])
                      \/ IsSubstring(ids[1], selectors[1]))

\* C19 witness: the selector "BAB" was evaluated against the cart id "BA",
\* which it contains, and passed.
C19_Witness ==
    /\ call.fn = "variantFilter"
    /\ call.variantSelection = Str(<<"B", "A", "B">>)
    /\ Len(call.cartLines) = 1
    /\ CartVariantIds(call.cartLines) = << <<"B", "A">> >>
    /\ ret = Bool(TRUE)

\* C20: a selection that parses to no selector (empty, or only commas and
\* whitespace) passes the variant filter for every cart, the empty cart
\* included, in both match modes; a selection with at least one selector fails
\* it, in both match modes, for a cart with no identifiable variant.
C20_EmptySelectorSetPasses ==
    (call.fn = "variantFilter" /\ ret # NotRun)
    => /\ (\A k \in DOMAIN call.variantSelection.s :
              call.variantSelection.s[k] \in {",", " "})
          => ret.b
       /\ ((\E k \in DOMAIN call.variantSelection.s :
              call.variantSelection.s[k] \notin {",", " "})
           /\ \A k \in DOMAIN call.cartLines :
                ~Truthy(LineVariantId(call.cartLines[k])))
          => ~ret.b

\* C20 witness: " , " was evaluated in all-mode against the empty cart and
\* passed.
C20_Witness ==
    /\ call.fn = "variantFilter"
    /\ call.variantSelection = Str(<<" ", ",", " ">>)
    /\ ~call.matchAnyVariant
    /\ call.cartLines = <<>>
    /\ ret = Bool(TRUE)

\* The three places a cart line may carry its variant id, in priority order.
VariantIdPaths(line) ==
    <<Get(Get(line, "merchandise"), "id"),
      Get(Get(Get(line, "merchandise"), "variant"), "id"),
      Get(Get(line, "variant"), "id")>>

\* The line carries a non-empty id at one of the three places.
Identifiable(line) ==
    \E k \in 1..3 : VariantIdPaths(line)[k].t = "string"
                    /\ VariantIdPaths(line)[k].s # <<>>

\* The first non-empty id of an identifiable line.
FirstVariantId(line) ==
    LET k == CHOOSE k \in 1..3 :
                 /\ VariantIdPaths(line)[k].t = "string"
                 /\ VariantIdPaths(line)[k].s # <<>>
                 /\ \A j \in 1..(k - 1) : ~Truthy(VariantIdPaths(line)[j])
    IN VariantIdPaths(line)[k].s

\* C21: each cart line counts in the variant filter as the first non-empty of
\* merchandise.id, merchandise.variant.id and variant.id, and a line with none
\* of them counts for nothing: with at least one selector the filter passes,
\* in any-mode, iff some selector matches the id so taken of some identifiable
\* line and, in all-mode, iff every selector does.
C21_FirstNonEmptyVariantId ==
    (call.fn = "variantFilter" /\ ret # NotRun)
    => LET selectors == Range(SelectedVariants(call.variantSelection.s))
           lines == {l \in Range(call.cartLines) : Identifiable(l)}
           Matched(sel) == \E l \in lines : SelectorMatches(FirstVariantId(l), sel)
       IN selectors # {}
          => ret.b = IF call.matchAnyVariant
                     THEN \E sel \in selectors : Matched(sel)
                     ELSE \A sel \in selectors : Matched(sel)

\* C21 witness: the selector "B" was evaluated against a cart of a line that
\* carries "A" as merchandise.id and "B" at the two other places, and a line
\* carrying no id, and failed.
C21_Witness ==
    /\ call.fn = "variantFilter"
    /\ call.variantSelection = Str(<<"B">>)
    /\ Len(call.cartLines) = 2
    /\ Get(Get(call.cartLines[1], "merchandise"), "id") = Str(<<"A">>)
    /\ Get(Get(call.cartLines[1], "variant"), "id") = Str(<<"B">>)
    /\ call.cartLines[2] = Obj(<<>>)
    /\ ret = Bool(FALSE)

(***************************************************************************)
(* The rich-text renderer on enumerated label inputs                       *)
(***************************************************************************)
MaxRootChildren == 2

TextNode(value) == Obj([type |-> Str(<<"t","e","x","t">>), value |-> value])
Container(type, children) == Obj([type |-> Str(type), children |-> Arr(children)])
Paragraph(children) == Container(<<"p","a","r","a","g","r","a","p","h">>, children)
Bold(children) == Container(<<"b","o","l","d">>, children)
Italic(children) == Container(<<"i","t","a","l","i","c">>, children)
Root(children) == Container(<<"r","o","o","t">>, children)
Link(url, children) ==
    Obj([type |-> Str(<<"l","i","n","k">>), url |-> url, children |-> Arr(children)])

TextA == TextNode(Str(<<"a">>))
TextEmpty == TextNode(Str(<<>>))
TextSpace == TextNode(Str(<<" ">>))
\* A text node carrying its string in `text` instead of `value`.
TextB == Obj([type |-> Str(<<"t","e","x","t">>), text |-> Str(<<"b">>)])
\* A node of no known type and with no children.
UnknownLeaf == Obj([type |-> Str(<<"i","m","a","g","e">>)])

\* The children a document's root is given.
LabelBlocks ==
    {TextA, TextEmpty, TextB, TextSpace, UnknownLeaf, Null, Str(<<"s">>),
     Paragraph(<<TextA>>), Paragraph(<<TextEmpty>>), Paragraph(<<TextA, TextB>>),
     Paragraph(<<Paragraph(<<TextA>>)>>), Paragraph(<<>>),
     Bold(<<TextA>>), Bold(<<>>),
     Obj([type |-> Str(<<"b","o","l","d">>), value |-> Str(<<"a">>)]),
     Italic(<<TextB>>), Bold(<<Italic(<<TextA>>)>>),
     Paragraph(<<Bold(<<TextA>>), TextB>>),
     Obj([type |-> Str(<<"l","i","n","k">>), url |-> Str(<<"h","t","t","p",":","x">>), children |-> Arr(<<TextA>>)]),
     Obj([type |-> Str(<<"l","i","n","k">>), url |-> Str(<<"/","p">>)]),
     Obj([type |-> Str(<<"l","i","n","k">>)]),
     Link(Str(<<"/","p">>), <<TextEmpty>>), Link(Str(<<"h","t","t","p",":","x">>), <<>>),
     Link(Undefined, <<>>), Link(Str(<<"/","p">>), <<TextA, TextB>>)}

\* Label settings that are not a document with a root.
BareLabels ==
    {Undefined, Null, Str(<<>>), Str(<<"h","i">>), Num(0), Num(5), Bool(FALSE),
     Bool(TRUE), Arr(<<>>), Arr(<<TextA>>), Obj(<<>>), UnknownLeaf, TextA,
     TextEmpty, TextNode(Num(5)), Bold(<<TextA>>)}

LabelInputs ==
    BareLabels \cup {Root(kids) : kids \in SeqsUpTo(LabelBlocks, MaxRootChildren)}

RendererCalls == {[fn |-> "parseRichTextLabel", label |-> l] : l \in LabelInputs}

ShouldShowCalls ==
    {[fn |-> "shouldShowCheckbox",
      settings |-> Obj([variant_selection |-> v, match_any_variant |-> a,
                        country_selection |-> c]),
      cartLines |-> lines, countryCode |-> Str(code)] :
        v \in {Undefined, Str(<<"A">>), Str(<<"A", ",", "B">>)},
        a \in {Undefined, Bool(FALSE)},
        c \in {Undefined, Str(<<"U","S">>)},
        lines \in SeqsUpTo(EvaluatorCartLines, 1),
        code \in {<<>>, <<"u","s">>, <<"F","R">>}}

\* What a call of the renderer returned.
Fragments(out) == [t |-> "fragments", out |-> out]

InitRenderer ==
    /\ ComponentIdle
    /\ call \in RendererCalls \cup ShouldShowCalls
    /\ ret = NotRun
    /\ nodeIndex = 0
    /\ again = NotRun
    /\ AdminIdle
    /\ ServerIdle

\* parseRichTextLabel(settings.checkbox_label), lines 284-287.
Render ==
    /\ call.fn = "parseRichTextLabel"
    /\ ret = NotRun
    /\ LET r == parseRichTextLabelFrom(call.label, NodeIndexAtCall(nodeIndex))
       IN /\ ret' = Fragments(r.out)
          /\ nodeIndex' = r.idx
    /\ UNCHANGED <<componentVars, call, again, adminVars, serverVars>>

\* The same call on the next render.
RenderAgain ==
    /\ call.fn = "parseRichTextLabel"
    /\ ret # NotRun
    /\ again = NotRun
    /\ LET r == parseRichTextLabelFrom(call.label, NodeIndexAtCall(nodeIndex))
       IN /\ again' = Fragments(r.out)
          /\ nodeIndex' = r.idx
    /\ UNCHANGED <<componentVars, call, ret, adminVars, serverVars>>

\* shouldShowCheckbox(), line 246.
EvaluateShouldShow ==
    /\ call.fn = "shouldShowCheckbox"
    /\ ret = NotRun
    /\ ret' = Bool(shouldShowCheckbox(call.settings, call.cartLines, call.countryCode))
    /\ UNCHANGED <<componentVars, call, nodeIndex, again, adminVars, serverVars>>

\* The same evaluation on the next render.
EvaluateShouldShowAgain ==
    /\ call.fn = "shouldShowCheckbox"
    /\ ret # NotRun
    /\ again = NotRun
    /\ again' = Bool(shouldShowCheckbox(call.settings, call.cartLines, call.countryCode))
    /\ UNCHANGED <<componentVars, call, ret, nodeIndex, adminVars, serverVars>>

NextRenderer ==
    \/ Render
    \/ RenderAgain
    \/ EvaluateShouldShow
    \/ EvaluateShouldShowAgain

SpecRenderer == InitRenderer /\ [][NextRenderer]_vars

\* The renderer has returned for the label of the call.
RendererReturned == call.fn = "parseRichTextLabel" /\ ret # NotRun

\* A node that contributes no fragment: a missing child, an empty string, an
\* empty text node, a node of no known type without children, or a container
\* all of whose children contribute none.
RECURSIVE NothingNode(_)
NothingNode(node) ==
    \/ IsNothing(node)
    \/ /\ node.t = "object"
       /\ \/ Get(node, "type") = Str(<<"t","e","x","t">>) /\ IsNothing(TextOf(node))
          \/ /\ Get(node, "type") \notin {Str(<<"t","e","x","t">>), Str(<<"b","o","l","d">>), Str(<<"i","t","a","l","i","c">>), Str(<<"l","i","n","k">>)}
             /\ ~HasProp(node, "children")
          \/ /\ Get(node, "type") \notin {Str(<<"t","e","x","t">>), Str(<<"b","o","l","d">>), Str(<<"i","t","a","l","i","c">>), Str(<<"l","i","n","k">>)}
             /\ HasChildArray(node)
             /\ \A k \in DOMAIN Get(node, "children").a :
                    NothingNode(Get(node, "children").a[k])

\* A label that is null, undefined, a non-string primitive, an array, or an
\* object every node of which contributes nothing.
Malformed(label) ==
    \/ label.t \in {"null", "undefined", "number", "boolean", "array"}
    \/ label.t = "object" /\ NothingNode(label)

\* C11: for a label that is null, undefined, a number, a boolean, an array, an
\* object of no known type without children, or a document all of whose nodes
\* convert to nothing, the renderer returns exactly the one-element sequence
\* holding "I agree to the terms and conditions".
C11_MalformedLabelYieldsDefault ==
    (RendererReturned /\ Malformed(call.label)) => ret.out = <<DefaultLabel>>

\* C11 witness: a document holding a paragraph with an empty text node and a
\* node of unknown type was rendered to the default label.
C11_Witness ==
    /\ call.fn = "parseRichTextLabel"
    /\ call.label = Root(<<Paragraph(<<TextEmpty>>), UnknownLeaf>>)
    /\ ret = Fragments(<<DefaultLabel>>)

\* C12: whatever the label (a document, a plain string, the empty string
\* included, or a missing value), the sequence the renderer returns has at
\* least one entry and no entry that is null, undefined or the empty string.
C12_OutputHasNoEmptyEntry ==
    RendererReturned
    => /\ Len(ret.out) > 0
       /\ \A k \in DOMAIN ret.out : ~IsNothing(ret.out[k])

\* A document made of text nodes holding strings, under root and container
\* nodes at any depth.
RECURSIVE IsTextOnly(_)
IsTextOnly(node) ==
    /\ node.t = "object"
    /\ \/ Get(node, "type") = Str(<<"t","e","x","t">>) /\ TextOf(node).t = "string"
       \/ /\ Get(node, "type") \notin {Str(<<"t","e","x","t">>), Str(<<"b","o","l","d">>), Str(<<"i","t","a","l","i","c">>), Str(<<"l","i","n","k">>)}
          /\ HasChildArray(node)
          /\ \A k \in DOMAIN Get(node, "children").a :
                 IsTextOnly(Get(node, "children").a[k])

\* C13 as stated: for every document of text nodes only, its all-empty ones
\* included, the renderer's fragments joined are the text the accessor
\* extracts from it.
C13_JoinedOutputIsExtraction ==
    (RendererReturned /\ IsTextOnly(call.label))
    => Str(Join(ret.out)) = extractTextFromRichText(call.label)

\* C13 amended: for every document of text nodes only, the renderer's fragments
\* joined are the text the accessor extracts from it when that text is not
\* empty; when it is empty the renderer returns the default label alone.
C13_JoinedOutputIsExtractionUnlessEmpty ==
    (RendererReturned /\ IsTextOnly(call.label))
    => LET text == extractTextFromRichText(call.label)
       IN IF text = Str(<<>>) THEN ret.out = <<DefaultLabel>>
          ELSE Str(Join(ret.out)) = text

\* C13 witness: a document with a two-text paragraph and an empty text node was
\* rendered to fragments that join to "ab".
C13_Witness ==
    /\ call.fn = "parseRichTextLabel"
    /\ call.label = Root(<<Paragraph(<<TextA, TextB>>), TextEmpty>>)
    /\ ret # NotRun
    /\ Join(ret.out) = <<"a", "b">>

StoredAs(value) == Obj([key |-> value])

GetStringCalls ==
    {[fn |-> "getStringSetting", settings |-> st, defaultValue |-> Str(<<"d">>)] :
        st \in {Obj(<<>>)} \cup {StoredAs(v) : v \in LabelInputs}}

BooleanSettingValues ==
    {Undefined, Null, Bool(TRUE), Bool(FALSE), Str(<<"t","r","u","e">>), Str(<<>>), Num(1),
     Num(0), Obj(<<>>), Arr(<<>>)}

GetBooleanCalls ==
    {[fn |-> "getBooleanSetting", settings |-> st, defaultValue |-> Bool(dflt)] :
        st \in {Obj(<<>>)} \cup {StoredAs(v) : v \in BooleanSettingValues},
        dflt \in BOOLEAN}

\* What onChange may be called with: the two event shapes, their mixtures,
\* shapes matching neither, no event, and primitives.
ChangeEvents ==
    ToggleEvents \cup
    {Null, Obj(<<>>),
     Obj([checked |-> Bool(FALSE)]),
     Obj([checked |-> Str(<<"y","e","s">>)]),
     Obj([checked |-> Str(<<"y","e","s">>), target |-> Obj([checked |-> Bool(TRUE)])]),
     Obj([checked |-> Bool(FALSE), target |-> Obj([checked |-> Bool(TRUE)])]),
     Obj([target |-> Null]),
     Obj([target |-> Obj(<<>>)]),
     Obj([target |-> Obj([checked |-> Num(1)])]),
     Obj([target |-> Str(<<"x">>)]),
     Str(<<"x">>), Bool(TRUE)}

ChangeCalls ==
    {[fn |-> "handleCheckboxChange", event |-> e, previous |-> b] :
        e \in ChangeEvents, b \in BOOLEAN}

InitAccessor ==
    /\ settings = Obj(<<>>)
    /\ canUpdateAttributes = TRUE
    /\ shippingApi = "absent"
    /\ hostLines = <<>>
    /\ phase = "unmounted"
    /\ call \in GetStringCalls \cup GetBooleanCalls \cup ChangeCalls
    /\ isChecked = IF call.fn = "handleCheckboxChange" THEN call.previous ELSE FALSE
    /\ showError = FALSE
    /\ cartLines = <<>>
    /\ countryCode = Str(<<>>)
    /\ subscribed = FALSE
    /\ registered = FALSE
    /\ interceptor = NoInterceptor
    /\ attempt = NoAttempt
    /\ history = NoHistory
    /\ dropped = FALSE
    /\ ret = NotRun
    /\ nodeIndex = 0
    /\ again = NotRun
    /\ AdminIdle
    /\ ServerIdle

GetString ==
    /\ call.fn = "getStringSetting"
    /\ ret = NotRun
    /\ ret' = getStringSetting(call.settings, "key", call.defaultValue)
    /\ UNCHANGED <<componentVars, call, nodeIndex, again, adminVars, serverVars>>

GetBoolean ==
    /\ call.fn = "getBooleanSetting"
    /\ ret = NotRun
    /\ ret' = Bool(getBooleanSetting(call.settings, "key", call.defaultValue.b))
    /\ UNCHANGED <<componentVars, call, nodeIndex, again, adminVars, serverVars>>

\* handleCheckboxChange(event): setIsChecked is reached unless an `in` test
\* throws.
HandleChange ==
    /\ call.fn = "handleCheckboxChange"
    /\ ret = NotRun
    /\ IF handleCheckboxChangeThrows(call.event)
       THEN ret' = Throws /\ UNCHANGED isChecked
       ELSE ret' = Undefined /\ isChecked' = handleCheckboxChange(call.event)
    /\ UNCHANGED <<settings, canUpdateAttributes, shippingApi, hostLines, phase,
                   showError, cartLines, countryCode, subscribed, registered,
                   interceptor, attempt, history, dropped, call, nodeIndex, again,
                   adminVars, serverVars>>

NextAccessor == GetString \/ GetBoolean \/ HandleChange

SpecAccessor == InitAccessor /\ [][NextAccessor]_vars

\* The value stored under the key of an accessor call.
Stored == Get(call.settings, "key")

\* C14: getString on a stored value that is absent or a boolean or a number
\* returns the supplied default, getBoolean on a stored value that is not a
\* boolean returns the supplied default, and no accessor call throws.
C14_MistypedFallsBackToDefault ==
    /\ (call.fn = "getStringSetting" /\ ret # NotRun)
       => /\ Stored.t \in {"undefined", "null", "boolean", "number"}
             => ret = call.defaultValue
          /\ ret # Throws
    /\ (call.fn = "getBooleanSetting" /\ ret # NotRun)
       => /\ Stored.t # "boolean" => ret = call.defaultValue
          /\ ret # Throws

\* The strings of a document's text nodes, in document order.
RECURSIVE TextNodeValues(_)
TextNodeValues(node) ==
    IF Get(node, "type") = Str(<<"t","e","x","t">>) THEN TextOf(node).s
    ELSE IF HasChildArray(node)
    THEN LET kids == Get(node, "children").a
             RECURSIVE From(_)
             From(k) == IF k > Len(kids) THEN <<>>
                        ELSE TextNodeValues(kids[k]) \o From(k + 1)
         IN From(1)
    ELSE <<>>

\* A tree of nodes: text nodes holding a string, nodes with an array of child
\* nodes, and childless nodes of other types.
RECURSIVE IsDocument(_)
IsDocument(node) ==
    /\ node.t = "object"
    /\ IF Get(node, "type") = Str(<<"t","e","x","t">>) THEN TextOf(node).t = "string"
       ELSE \/ ~HasProp(node, "children")
            \/ /\ HasChildArray(node)
               /\ \A k \in DOMAIN Get(node, "children").a :
                      IsDocument(Get(node, "children").a[k])

\* C15: getString on a stored document returns the strings of its text nodes
\* concatenated in document order, and the supplied default when that text is
\* empty or only whitespace.
C15_GetStringExtractsText ==
    (call.fn = "getStringSetting" /\ ret # NotRun /\ IsDocument(Stored))
    => LET text == TextNodeValues(Stored)
       IN ret = IF Trim(text) = <<>> THEN call.defaultValue ELSE Str(text)

\* C15 witness: a document with a two-text paragraph and a bold text was read
\* as "aba".
C15_Witness ==
    /\ call.fn = "getStringSetting"
    /\ Stored = Root(<<Paragraph(<<TextA, TextB>>), Bold(<<TextA>>)>>)
    /\ ret = Str(<<"a", "b", "a">>)

\* An event that is missing or an object whose target, if any, is an object.
IsEventShaped(event) ==
    /\ event.t \in {"undefined", "null", "object"}
    /\ Get(event, "target").t \in {"undefined", "null", "object"}

MaxExtensions == 2
MaxPendingChecks == 2

CheckboxHandle == Str(<<"c","h","e","c","k","o","u","t","-","c","h","e","c","k","b","o","x">>)

Extension(handle, activations) ==
    Obj([handle |-> handle, activations |-> Arr(activations)])
Activation == Obj(<<>>)

\* The extensions shopify.app.extensions() may list.
AdminExtensions ==
    {Extension(Str(<<"o","t","h","e","r">>), <<Activation>>),
     Extension(CheckboxHandle, <<>>),
     Extension(CheckboxHandle, <<Activation>>),
     Extension(CheckboxHandle, <<Activation, Activation>>),
     Obj([handle |-> CheckboxHandle])}

\* How await shopify.app.extensions() ends: it throws, or resolves to a list.
Lookups ==
    {[throws |-> TRUE, extensions |-> <<>>]} \cup
    {[throws |-> FALSE, extensions |-> list] :
        list \in SeqsUpTo(AdminExtensions, MaxExtensions)}

\* extensions.find(ext => ext.handle === "checkout-checkbox")
FindCheckboxExtension(extensions) ==
    LET found == SelectSeq(extensions, LAMBDA ext : Get(ext, "handle") = CheckboxHandle)
    IN IF found = <<>> THEN Undefined ELSE found[1]

\* checkboxExtension?.activations?.length || 0
activationCount(checkboxExtension) ==
    LET activations == Get(checkboxExtension, "activations")
    IN IF activations.t = "array" THEN Len(activations.a) ELSE 0

\* The branch a run takes once the lookup has ended.
PathOf(lookup) ==
    IF lookup.throws THEN "threw"
    ELSE IF ~Truthy(FindCheckboxExtension(lookup.extensions)) THEN "notFound"
    ELSE "found"

\* What the run hands to setExtensionStatus (label and tone; the helper text is
\* left out).
StatusAfterLookup(lookup) ==
    IF PathOf(lookup) = "threw" THEN [label |-> "Error", tone |-> "critical"]
    ELSE IF PathOf(lookup) = "notFound" THEN [label |-> "Not found", tone |-> "critical"]
    ELSE IF activationCount(FindCheckboxExtension(lookup.extensions)) > 0
         THEN [label |-> "Active", tone |-> "success"]
    ELSE [label |-> "Inactive", tone |-> "info"]

StatusErrorMessage ==
    "Unable to verify the checkbox extension status. Please try refreshing the page."

\* The run asks for a review: the gated page, an active extension, and no
\* review requested as far as the run's closure knows.
RequestsReview(lookup, run) ==
    /\ gated
    /\ PathOf(lookup) = "found"
    /\ activationCount(FindCheckboxExtension(lookup.extensions)) > 0
    /\ ~run.hasRequestedReview

InitAdmin ==
    /\ ComponentIdle
    /\ call = NoCall
    /\ ret = NotRun
    /\ nodeIndex = 0
    /\ again = NotRun
    /\ ServerIdle
    /\ shopifyBridge \in BOOLEAN
    /\ gated \in BOOLEAN
    /\ extensionStatus = [label |-> "Checking status...", tone |-> "subdued"]
    /\ statusError = ""
    /\ isCheckingStatus = FALSE
    /\ pendingChecks = <<>>
    /\ lastCheck = NoCheck
    /\ hasRequestedReview = FALSE
    /\ reviewPending = FALSE

notAdminVars == <<componentVars, call, ret, nodeIndex, again, serverVars>>

\* checkExtensionStatus up to its await (lines 26-32): nothing without a
\* bridge, else the run is pending with the closure's hasRequestedReview.
StartCheck ==
    /\ Len(pendingChecks) < MaxPendingChecks
    /\ IF ~shopifyBridge
       THEN /\ lastCheck' = [path |-> "noBridge", extensions |-> <<>>]
            /\ UNCHANGED <<isCheckingStatus, statusError, pendingChecks>>
       ELSE /\ isCheckingStatus' = TRUE
            /\ statusError' = ""
            /\ pendingChecks' =
                 Append(pendingChecks, [hasRequestedReview |-> hasRequestedReview])
            /\ UNCHANGED lastCheck
    /\ UNCHANGED <<shopifyBridge, gated, extensionStatus, hasRequestedReview,
                   reviewPending, notAdminVars>>

\* CompleteCheck with the not-found return leaving before the finally block.
CompleteCheckReturnSkipsFinally(lookup, k) ==
    /\ k \in DOMAIN pendingChecks
    /\ extensionStatus' = StatusAfterLookup(lookup)
    /\ statusError' = IF lookup.throws THEN StatusErrorMessage ELSE statusError
    /\ isCheckingStatus' = IF PathOf(lookup) = "notFound" THEN isCheckingStatus ELSE FALSE
    /\ pendingChecks' = [j \in 1..(Len(pendingChecks) - 1) |->
                           IF j < k THEN pendingChecks[j] ELSE pendingChecks[j + 1]]
    /\ lastCheck' = [path |-> PathOf(lookup), extensions |-> lookup.extensions]
    /\ reviewPending' = (reviewPending \/ RequestsReview(lookup, pendingChecks[k]))
    /\ UNCHANGED <<shopifyBridge, gated, hasRequestedReview, notAdminVars>>

\* The rest of a pending run, from the end of the lookup to the finally block
\* (lines 32-66, 325-358).
CompleteCheck(lookup, k) ==
    /\ k \in DOMAIN pendingChecks
    /\ extensionStatus' = StatusAfterLookup(lookup)
    /\ statusError' = IF lookup.throws THEN StatusErrorMessage ELSE statusError
    /\ isCheckingStatus' = FALSE
    /\ pendingChecks' = [j \in 1..(Len(pendingChecks) - 1) |->
                           IF j < k THEN pendingChecks[j] ELSE pendingChecks[j + 1]]
    /\ lastCheck' = [path |-> PathOf(lookup), extensions |-> lookup.extensions]
    /\ reviewPending' = (reviewPending \/ RequestsReview(lookup, pendingChecks[k]))
    /\ UNCHANGED <<shopifyBridge, gated, hasRequestedReview, notAdminVars>>

\* requestReview's await ends (lines 364-370): a successful request is
\* remembered, a failed or throwing one is not.
ReviewResolved(success) ==
    /\ reviewPending
    /\ reviewPending' = FALSE
    /\ hasRequestedReview' = (hasRequestedReview \/ success)
    /\ UNCHANGED <<shopifyBridge, gated, extensionStatus, statusError,
                   isCheckingStatus, pendingChecks, lastCheck, notAdminVars>>

NextAdmin ==
    \/ StartCheck
    \/ \E lookup \in Lookups : \E k \in 1..MaxPendingChecks : CompleteCheck(lookup, k)
    \/ \E success \in BOOLEAN : ReviewResolved(success)

SpecAdmin == InitAdmin /\ [][NextAdmin]_vars

\* A run that reached the lookup ends in this step.
CheckEnds == Len(pendingChecks') < Len(pendingChecks)

\* C29: when a run of checkExtensionStatus ends, whether it returned for want
\* of a bridge or made the lookup, isCheckingStatus is false; after a lookup
\* the label is "Error", with a non-empty statusError, when the lookup threw;
\* "Not found" when the list holds no extension with the handle
\* "checkout-checkbox"; and otherwise "Active" if the extension found has at
\* least one activation and "Inactive" if it has none.
C29_StatusCheckEnds ==
    [][/\ (lastCheck' # lastCheck /\ lastCheck'.path = "noBridge")
            => isCheckingStatus' = FALSE
       /\ CheckEnds
            => /\ isCheckingStatus' = FALSE
               /\ LET listed  == {lastCheck'.extensions[j] : j \in DOMAIN lastCheck'.extensions}
                      first == CHOOSE j \in 1..(Len(lastCheck'.extensions) + 1) :
                                 /\ j <= Len(lastCheck'.extensions)
                                      => Get(lastCheck'.extensions[j], "handle") = CheckboxHandle
                                 /\ \A i \in 1..(j - 1) :
                                      Get(lastCheck'.extensions[i], "handle") # CheckboxHandle
                  IN IF lastCheck'.path = "threw"
                     THEN extensionStatus'.label = "Error" /\ statusError' # ""
                     ELSE IF \A ext \in listed : Get(ext, "handle") # CheckboxHandle
                     THEN extensionStatus'.label = "Not found"
                     ELSE /\ extensionStatus'.label \in {"Active", "Inactive"}
                          /\ extensionStatus'.label = "Active"
                               <=> (/\ HasProp(lastCheck'.extensions[first], "activations")
                                    /\ Get(lastCheck'.extensions[first], "activations").a # <<>>)]_vars

\* C29 witness: a run has ended on a list without the checkbox extension, none
\* is pending, the label is "Not found" and isCheckingStatus is false.
C29_Witness ==
    /\ lastCheck.path = "notFound"
    /\ lastCheck.extensions # <<>>
    /\ pendingChecks = <<>>
    /\ extensionStatus.label = "Not found"
    /\ ~isCheckingStatus

(***************************************************************************)
(* The serverless request wrapper (api/index.js)                           *)
(***************************************************************************)
MaxRequests == 3
MaxNextCalls == 2

StatusNotFound == 404
StatusServerError == 500

\* The statuses the inner handler may answer with.
HandlerStatuses == {200, 302, 404}

Response(by, status, text) == [by |-> by, status |-> status, text |-> text]

InitFailedResponse == Response("wrapper", StatusServerError, "Server initialization failed")
NotFoundResponse == Response("wrapper", StatusNotFound, "Not Found")
HandlerErrorResponse == Response("wrapper", StatusServerError, "Internal Server Error")

\* The wrapper writing whatever has been sent.
WrapperMayWriteAlways == TRUE

\* if (!res.headersSent), lines 51 and 57
WrapperMayWrite == ~headersSent

InitServer ==
    /\ ComponentIdle
    /\ call = NoCall
    /\ ret = NotRun
    /\ nodeIndex = 0
    /\ again = NotRun
    /\ AdminIdle
    /\ ServerIdle

\* The module is loaded (lines 14-29): createRequestHandler returns the
\* handler, or throws and leaves it undefined.
Load(fails) ==
    /\ serving = "notLoaded"
    /\ handler' = IF fails THEN "undefined" ELSE "created"
    /\ serving' = "idle"
    /\ UNCHANGED <<headersSent, responses, invoked, nextCalls, requests,
                   componentVars, call, ret, nodeIndex, again, adminVars>>

\* A request arrives (lines 32-49): a missing handler is created again; if
\* that throws the wrapper answers 500 and returns, else the handler is called.
Request(fails) ==
    /\ serving \in {"idle", "refused", "returned", "threw"}
    /\ requests < MaxRequests
    /\ requests' = requests + 1
    /\ nextCalls' = 0
    /\ IF handler = "undefined" /\ fails
       THEN /\ responses' = <<InitFailedResponse>>
            /\ headersSent' = TRUE
            /\ invoked' = FALSE
            /\ serving' = "refused"
            /\ UNCHANGED handler
       ELSE /\ handler' = "created"
            /\ responses' = <<>>
            /\ headersSent' = FALSE
            /\ invoked' = TRUE
            /\ serving' = "inner"
    /\ UNCHANGED <<componentVars, call, ret, nodeIndex, again, adminVars>>

\* The inner handler answers the request; a write after the headers were sent
\* throws in Node, which is InnerThrows.
InnerRespond(status) ==
    /\ serving = "inner"
    /\ ~headersSent
    /\ responses' = Append(responses, Response("handler", status, ""))
    /\ headersSent' = TRUE
    /\ UNCHANGED <<handler, serving, invoked, nextCalls, requests,
                   componentVars, call, ret, nodeIndex, again, adminVars>>

\* The inner handler calls the callback it was given (lines 49-54), during
\* the call or after it.
InnerCallsNext ==
    /\ invoked
    /\ nextCalls < MaxNextCalls
    /\ nextCalls' = nextCalls + 1
    /\ IF WrapperMayWrite
       THEN /\ responses' = Append(responses, NotFoundResponse)
            /\ headersSent' = TRUE
       ELSE UNCHANGED <<responses, headersSent>>
    /\ UNCHANGED <<handler, serving, invoked, requests,
                   componentVars, call, ret, nodeIndex, again, adminVars>>

\* The inner handler throws or rejects (lines 55-63).
InnerThrows ==
    /\ serving = "inner"
    /\ serving' = "threw"
    /\ IF WrapperMayWrite
       THEN /\ responses' = Append(responses, HandlerErrorResponse)
            /\ headersSent' = TRUE
       ELSE UNCHANGED <<responses, headersSent>>
    /\ UNCHANGED <<handler, invoked, nextCalls, requests,
                   componentVars, call, ret, nodeIndex, again, adminVars>>

\* The inner handler's promise resolves (line 49).
InnerReturns ==
    /\ serving = "inner"
    /\ serving' = "returned"
    /\ UNCHANGED <<handler, headersSent, responses, invoked, nextCalls, requests,
                   componentVars, call, ret, nodeIndex, again, adminVars>>

NextServer ==
    \/ \E fails \in BOOLEAN : Load(fails)
    \/ \E fails \in BOOLEAN : Request(fails)
    \/ \E status \in HandlerStatuses : InnerRespond(status)
    \/ InnerCallsNext
    \/ InnerThrows
    \/ InnerReturns

SpecServer == InitServer /\ [][NextServer]_vars

\* C30: a request gets at most one response, and one written by the wrapper
\* is the first; when the handler could not be created at load time nor on the
\* request, the response is 500 "Server initialization failed" and the
\* handler was not invoked.
C30_NoSecondResponse ==
    /\ Len(responses) <= 1
    /\ \A i \in DOMAIN responses : responses[i].by = "wrapper" => i = 1
    /\ headersSent <=> responses # <<>>
    /\ serving = "refused" <=> (handler = "undefined" /\ requests > 0)
    /\ serving = "refused" => (responses = <<InitFailedResponse>> /\ ~invoked)
    /\ ~invoked => responses \in {<<>>, <<InitFailedResponse>>}

\* C30 witness: the inner handler answered, called the callback and then
\* threw, and the handler's answer is the only response.
C30_Witness ==
    /\ serving = "threw"
    /\ invoked
    /\ nextCalls > 0
    /\ Len(responses) = 1
    /\ responses[1].by = "handler"

(***************************************************************************)
(* The renderer's fragments, node by node                                  *)
(***************************************************************************)
\* The label is a root holding one link node and nothing else.
LoneLink ==
    /\ call.fn = "parseRichTextLabel"
    /\ Get(call.label, "type") = Str(<<"r","o","o","t">>)
    /\ HasChildArray(call.label)
    /\ Len(Get(call.label, "children").a) = 1
    /\ Get(Get(call.label, "children").a[1], "type") = Str(<<"l","i","n","k">>)

RECURSIVE Producers(_)
Producers(node) ==
    IF IsNothing(node) THEN <<>>
    ELSE IF node.t = "string" THEN <<node>>
    ELSE IF node.t # "object" THEN <<>>
    ELSE IF Get(node, "type") = Str(<<"t","e","x","t">>)
         THEN (IF IsNothing(TextOf(node)) THEN <<>> ELSE <<node>>)
    ELSE IF Get(node, "type") \in {Str(<<"b","o","l","d">>), Str(<<"i","t","a","l","i","c">>), Str(<<"l","i","n","k">>)}
         THEN <<node>>
    ELSE IF HasChildArray(node)
         THEN LET kids == Get(node, "children").a
                  RECURSIVE From(_)
                  From(k) == IF k > Len(kids) THEN <<>>
                             ELSE Producers(kids[k]) \o From(k + 1)
              IN From(1)
    ELSE <<>>

\* The fragment is the one the node produces: the node's string, or an element
\* of the node's kind.
FragmentOf(fragment, node) ==
    IF node.t = "string" THEN fragment = node
    ELSE IF Get(node, "type") = Str(<<"t","e","x","t">>) THEN fragment = TextOf(node)
    ELSE /\ fragment.t = "element"
         /\ fragment.tag = (IF Get(node, "type") = Str(<<"l","i","n","k">>) THEN "s-link" ELSE "s-text")
         /\ Get(node, "type") = Str(<<"b","o","l","d">>) => fragment.props.emphasis = "bold"
         /\ Get(node, "type") = Str(<<"i","t","a","l","i","c">>) => fragment.props.emphasis = "italic"

\* C25: for a document with a root, the renderer's output is one fragment per
\* fragment-producing node, in the pre-order of those nodes, whatever the depth
\* of the containers around them; nodes of no known type without children
\* contribute nothing, and a document with no producing node yields the
\* default label alone.
C25_OutputInDocumentOrder ==
    (call.fn = "parseRichTextLabel" /\ ret # NotRun
       /\ Get(call.label, "type") = Str(<<"r","o","o","t">>))
    => LET nodes == Producers(call.label)
       IN IF nodes = <<>> THEN ret.out = <<DefaultLabel>>
          ELSE /\ Len(ret.out) = Len(nodes)
               /\ \A k \in DOMAIN nodes : FragmentOf(ret.out[k], nodes[k])

\* C25 witness: a paragraph holding a bold node and the text "b", followed by
\* a node of unknown type, was rendered as the bold fragment and then "b".
C25_Witness ==
    /\ call.fn = "parseRichTextLabel"
    /\ call.label = Root(<<Paragraph(<<Bold(<<TextA>>), TextB>>), UnknownLeaf>>)
    /\ ret # NotRun
    /\ Len(ret.out) = 2
    /\ ret.out[2] = Str(<<"b">>)

=============================================================================
